---- MODULE Spec2Model ----
(***************************************************************************)
(* A model of crates/notifier_host/src/item.rs: the StatusNotifierItem     *)
(* client.  Strings are sequences of one-character strings, so that        *)
(* splitting, searching and exact matching are computed, not assumed.      *)
(***************************************************************************)
EXTENDS Integers, Sequences, FiniteSets, TLC

VARIABLES
    input,      \* the argument of a pure function applied on its own (SpecResolve)
    output,     \* what that application returned, None before it
    raw,        \* from_address: the addr argument of the last call
    sni,        \* Item.sni: Option of the proxy [destination, path]; None = no Item
    gtk_menu,   \* Item.gtk_menu: Option<dbusmenu_gtk3::Menu>
    pc,         \* where the caller's task is: "none", "idle", or suspended in an operation
    args,       \* the arguments of the operation last called
    pre,        \* gtk_menu as it was when the operation last called started
    remote,     \* the remote calls the operation last called issued, with their replies
    local,      \* the calls on the local menu the operation last called made
    parsed,     \* the strings the operation last called handed to Status::from_str
    built,      \* how many dbusmenu_gtk3::Menu objects have been constructed
    result,     \* what the operation last finished returned
    prev        \* which operation finished before that one, and how

vars == <<input, output, raw, sni, gtk_menu, pc, args, pre, remote, local, parsed,
          built, result, prev>>

(***************************************************************************)
(* Option and Result                                                       *)
(***************************************************************************)
None == [some |-> FALSE]

Some(v) == [some |-> TRUE, val |-> v]

Ok(v) == [ok |-> TRUE, val |-> v]

Err(e) == [ok |-> FALSE, err |-> e]

\* the unit value ()
Unit == <<>>

(***************************************************************************)
(* zbus::Error: the variants this file constructs or can be handed         *)
(***************************************************************************)
Address(s) == [variant |-> "Address", msg |-> s]

Failure(s) == [variant |-> "Failure", msg |-> s]

InputOutput == [variant |-> "InputOutput", msg |-> <<>>]

MethodError(s) == [variant |-> "MethodError", msg |-> s]

(***************************************************************************)
(* str methods                                                             *)
(***************************************************************************)
\* the index of the first c in s, 0 when there is none
find(s, c) ==
    IF \E i \in 1..Len(s) : s[i] = c
    THEN CHOOSE i \in 1..Len(s) : s[i] = c /\ \A j \in 1..(i - 1) : s[j] # c
    ELSE 0

contains(s, c) == find(s, c) # 0

\* str::split_once: the text before and after the first c
split_once(s, c) ==
    LET i == find(s, c)
    IN  IF i = 0 THEN None
        ELSE Some(<<SubSeq(s, 1, i - 1), SubSeq(s, i + 1, Len(s))>>)

\* str::split: every field between occurrences of c; never empty
RECURSIVE split(_, _)
split(s, c) ==
    LET i == find(s, c)
    IN  IF i = 0 THEN <<s>>
        ELSE <<SubSeq(s, 1, i - 1)>> \o split(SubSeq(s, i + 1, Len(s)), c)

\* Iterator::nth, counting from 0
nth(fields, n) == IF n + 1 <= Len(fields) THEN Some(fields[n + 1]) ELSE None

DefaultPath ==
    <<"/", "S", "t", "a", "t", "u", "s", "N", "o", "t", "i", "f", "i", "e", "r",
      "I", "t", "e", "m">>

\* a seeded fault: the colon branch takes the field before the first colon
split_service_name_nth0(s) ==
    LET so == split_once(s, "/")
    IN  IF so.some THEN Ok(<<so.val[1], <<"/">> \o so.val[2]>>)
        ELSE IF contains(s, ":")
        THEN LET addr == nth(split(s, ":"), 0)
             IN  IF addr.some THEN Ok(<<addr.val, DefaultPath>>)
                 ELSE Err(Address(s))
        ELSE Err(Address(s))

\* a seeded fault: the slash branch returns the text after the '/' as it is
split_service_name_bare(s) ==
    LET so == split_once(s, "/")
    IN  IF so.some THEN Ok(<<so.val[1], so.val[2]>>)
        ELSE IF contains(s, ":")
        THEN LET addr == nth(split(s, ":"), 1)
             IN  IF addr.some THEN Ok(<<addr.val, DefaultPath>>)
                 ELSE Err(Address(s))
        ELSE Err(Address(s))

\* a seeded fault: the error is built without the string it is about
split_service_name_noraw(s) ==
    LET so == split_once(s, "/")
    IN  IF so.some THEN Ok(<<so.val[1], <<"/">> \o so.val[2]>>)
        ELSE IF contains(s, ":")
        THEN LET addr == nth(split(s, ":"), 1)
             IN  IF addr.some THEN Ok(<<addr.val, DefaultPath>>)
                 ELSE Err(Address(<<>>))
        ELSE Err(Address(<<>>))

\* a seeded fault: an empty field after the first colon counts as no field
split_service_name_nonempty(s) ==
    LET so == split_once(s, "/")
    IN  IF so.some THEN Ok(<<so.val[1], <<"/">> \o so.val[2]>>)
        ELSE IF contains(s, ":")
        THEN LET addr == nth(split(s, ":"), 1)
             IN  IF addr.some /\ addr.val # <<>> THEN Ok(<<addr.val, DefaultPath>>)
                 ELSE Err(Address(s))
        ELSE Err(Address(s))

split_service_name(s) ==
    LET so == split_once(s, "/")
    IN  IF so.some THEN Ok(<<so.val[1], <<"/">> \o so.val[2]>>)
        ELSE IF contains(s, ":")
        THEN LET addr == nth(split(s, ":"), 1)
             IN  IF addr.some THEN Ok(<<addr.val, DefaultPath>>)
                 ELSE Err(Address(s))
        ELSE Err(Address(s))

(***************************************************************************)
(* Status and its FromStr                                                  *)
(***************************************************************************)
PassiveStr == <<"P", "a", "s", "s", "i", "v", "e">>

ActiveStr == <<"A", "c", "t", "i", "v", "e">>

NeedsAttentionStr ==
    <<"N", "e", "e", "d", "s", "A", "t", "t", "e", "n", "t", "i", "o", "n">>

ParseStatusError == "ParseStatusError"

\* str::trim, of spaces
RECURSIVE trim_start(_)
trim_start(s) == IF s # <<>> /\ Head(s) = " " THEN trim_start(Tail(s)) ELSE s

RECURSIVE trim_end(_)
trim_end(s) ==
    IF s # <<>> /\ s[Len(s)] = " " THEN trim_end(SubSeq(s, 1, Len(s) - 1)) ELSE s

\* a seeded fault: the string is trimmed before it is matched
from_str_trimmed(s) ==
    LET u == trim_end(trim_start(s))
    IN  IF u = PassiveStr THEN Ok("Passive")
        ELSE IF u = ActiveStr THEN Ok("Active")
        ELSE IF u = NeedsAttentionStr THEN Ok("NeedsAttention")
        ELSE Err(ParseStatusError)

from_str(s) ==
    IF s = PassiveStr THEN Ok("Passive")
    ELSE IF s = ActiveStr THEN Ok("Active")
    ELSE IF s = NeedsAttentionStr THEN Ok("NeedsAttention")
    ELSE Err(ParseStatusError)

\* {:?} of a str: quoted, with '"' and '\' escaped
RECURSIVE escape_debug(_)
escape_debug(s) ==
    IF s = <<>> THEN <<>>
    ELSE (IF Head(s) \in {"\"", "\\"} THEN <<"\\", Head(s)>> ELSE <<Head(s)>>)
         \o escape_debug(Tail(s))

fmt_debug(s) == <<"\"">> \o escape_debug(s) \o <<"\"">>

\* format!("Invalid status {:?}", status)
invalid_status(s) ==
    <<"I", "n", "v", "a", "l", "i", "d", " ", "s", "t", "a", "t", "u", "s", " ">>
    \o fmt_debug(s)

(***************************************************************************)
(* Bounds and the inputs drawn from them                                   *)
(***************************************************************************)
MaxLen == 4

MaxMenus == 2

NumWidgets == 2

NumEvents == 2

MaxCoord == 1

Alphabet == {"a", "b", ":", "/"}

RECURSIVE StringsOfLen(_)
StringsOfLen(n) ==
    IF n = 0 THEN {<<>>}
    ELSE {<<c>> \o s : c \in Alphabet, s \in StringsOfLen(n - 1)}

\* every string over Alphabet of at most MaxLen characters
Strings == UNION {StringsOfLen(n) : n \in 0..MaxLen}

\* the raw addresses handed to from_address: name/path, junk:id:junk, :id, neither
Addresses ==
    { <<":", "1", ".", "5", "0", "/", "o", "r", "g", "/", "n", "m">>,
      <<"o", "r", "g", ".", "f", "o", "o", ":", "1", ".", "5", "0", ":", "e", "x">>,
      <<":", "1", ".", "7">>,
      <<"g", "a", "r", "b", "a", "g", "e">> }

BananaStr == <<"B", "a", "n", "a", "n", "a">>

\* what the remote Status getter can answer
StatusReplies ==
    { PassiveStr, ActiveStr, NeedsAttentionStr, BananaStr,
      <<"a", "c", "t", "i", "v", "e">>, <<>>, <<" ">> \o ActiveStr }

\* what the remote Menu getter can answer
MenuPaths == { <<"/", "M", "e", "n", "u", "B", "a", "r">>, <<"/", "m">> }

\* the zbus::Error values a failing remote call or proxy builder hands back
ZbusErrors ==
    { InputOutput,
      MethodError(<<"U", "n", "k", "n", "o", "w", "n", "M", "e", "t", "h", "o", "d">>),
      Failure(invalid_status(BananaStr)) }

Widgets == 1..NumWidgets

Events == 1..NumEvents

Coords == 0..MaxCoord

Pixbufs == {"pixbuf"}

Sizes == {24}

Scales == {1}

(***************************************************************************)
(* The caller's task                                                       *)
(***************************************************************************)
Pending == [pending |-> TRUE]

Cancelled == [cancelled |-> TRUE]

Call(name, a) == [call |-> name, args |-> a, reply |-> Pending]

IsErr(ret) == "ok" \in DOMAIN ret /\ ~ret.ok

\* which operation finished last, whether it failed, whether a menu was cached at its call
Summary == [op |-> result.op, failed |-> IsErr(result.ret), had_menu |-> pre.some]

\* an operation is called: its record starts afresh
Begin(a) ==
    /\ args' = a
    /\ pre' = gtk_menu
    /\ prev' = Summary

\* the operation is suspended on a remote call
Suspend(op) ==
    /\ pc' = op
    /\ result' = [op |-> op, ret |-> Pending]

\* the operation returns ret to the caller, who goes on from `at`
Return(op, ret, at) ==
    /\ pc' = at
    /\ result' = [op |-> op, ret |-> ret]

\* the reply to the one remote call in flight arrives
Replied(reply) == [remote EXCEPT ![Len(remote)].reply = reply]

Init ==
    /\ input = <<>>
    /\ output = None
    /\ raw = <<>>
    /\ sni = None
    /\ gtk_menu = None
    /\ pc = "none"
    /\ args = <<>>
    /\ pre = None
    /\ remote = <<>>
    /\ local = <<>>
    /\ parsed = <<>>
    /\ built = 0
    /\ result = [op |-> "none", ret |-> Pending]
    /\ prev = [op |-> "none", failed |-> FALSE, had_menu |-> FALSE]

(***************************************************************************)
(* Item::from_address                                                      *)
(***************************************************************************)
\* a seeded fault: an address that does not resolve is tried at the default path
from_address_fallback(addr, rejected) ==
    /\ pc = "none"
    /\ Begin(<<addr>>)
    /\ raw' = addr
    /\ LET r == split_service_name(addr)
       IN  IF ~r.ok
           THEN /\ Suspend("from_address")
                /\ remote' = <<Call("build", <<addr, DefaultPath>>)>>
           ELSE IF rejected.some
           THEN /\ Return("from_address", Err(rejected.val), "none")
                /\ remote' = <<>>
           ELSE /\ Suspend("from_address")
                /\ remote' = <<Call("build", r.val)>>
    /\ local' = <<>>
    /\ parsed' = <<>>
    /\ UNCHANGED <<input, output, sni, gtk_menu, built>>

\* up to the await of build(): `rejected` is the error of a failing
\* destination(addr)? or path(path)?, None when the builder accepts both
from_address(addr, rejected) ==
    /\ pc = "none"
    /\ Begin(<<addr>>)
    /\ raw' = addr
    /\ LET r == split_service_name(addr)
       IN  IF ~r.ok
           THEN /\ Return("from_address", Err(r.err), "none")
                /\ remote' = <<>>
           ELSE IF rejected.some
           THEN /\ Return("from_address", Err(rejected.val), "none")
                /\ remote' = <<>>
           ELSE /\ Suspend("from_address")
                /\ remote' = <<Call("build", r.val)>>
    /\ local' = <<>>
    /\ parsed' = <<>>
    /\ UNCHANGED <<input, output, sni, gtk_menu, built>>

\* a seeded fault: the Item is returned with a menu already built for the item's path
from_address_resume_menu(reply) ==
    /\ pc = "from_address"
    /\ remote' = Replied(reply)
    /\ IF reply.ok
       THEN /\ sni' = Some([destination |-> remote[1].args[1], path |-> remote[1].args[2]])
            /\ gtk_menu' = Some([id |-> built + 1, name |-> remote[1].args[1],
                                 object |-> remote[1].args[2], attach_widget |-> None])
            /\ built' = built + 1
            /\ Return("from_address", Ok(Unit), "idle")
       ELSE /\ Return("from_address", Err(reply.err), "none")
            /\ UNCHANGED <<sni, gtk_menu, built>>
    /\ UNCHANGED <<input, output, raw, args, pre, local, parsed, prev>>

\* build().await completes: Ok(Self { sni, gtk_menu: None }) or the builder's error
from_address_resume(reply) ==
    /\ pc = "from_address"
    /\ remote' = Replied(reply)
    /\ IF reply.ok
       THEN /\ sni' = Some([destination |-> remote[1].args[1], path |-> remote[1].args[2]])
            /\ gtk_menu' = None
            /\ Return("from_address", Ok(Unit), "idle")
       ELSE /\ Return("from_address", Err(reply.err), "none")
            /\ UNCHANGED <<sni, gtk_menu>>
    /\ UNCHANGED <<input, output, raw, args, pre, local, parsed, built, prev>>

(***************************************************************************)
(* Item::status                                                            *)
(***************************************************************************)
status ==
    /\ pc = "idle"
    /\ Begin(<<>>)
    /\ Suspend("status")
    /\ remote' = <<Call("Status", <<>>)>>
    /\ local' = <<>>
    /\ parsed' = <<>>
    /\ UNCHANGED <<input, output, raw, sni, gtk_menu, built>>

\* a seeded fault: a failed getter is parsed as the empty string
status_resume_default(reply) ==
    /\ pc = "status"
    /\ remote' = Replied(reply)
    /\ LET s == IF reply.ok THEN reply.val ELSE <<>>
       IN  /\ parsed' = <<s>>
           /\ IF from_str(s).ok
              THEN Return("status", Ok(from_str(s).val), "idle")
              ELSE Return("status", Err(Failure(invalid_status(s))), "idle")
    /\ UNCHANGED <<input, output, raw, sni, gtk_menu, args, pre, local, built, prev>>

\* self.sni.status().await completes; `?`, then status.parse()
status_resume(reply) ==
    /\ pc = "status"
    /\ remote' = Replied(reply)
    /\ IF ~reply.ok
       THEN /\ Return("status", Err(reply.err), "idle")
            /\ parsed' = parsed
       ELSE /\ parsed' = <<reply.val>>
            /\ IF from_str(reply.val).ok
               THEN Return("status", Ok(from_str(reply.val).val), "idle")
               ELSE Return("status", Err(Failure(invalid_status(reply.val))), "idle")
    /\ UNCHANGED <<input, output, raw, sni, gtk_menu, args, pre, local, built, prev>>

(***************************************************************************)
(* Item::set_menu                                                          *)
(***************************************************************************)
\* dbusmenu_gtk3::Menu::new(name, object): a new object, attached to nothing
Menu_new(name, object) ==
    [id |-> built + 1, name |-> name, object |-> object, attach_widget |-> None]

\* a seeded fault: the cached menu is taken out before the getter is awaited
set_menu_take ==
    /\ pc = "idle"
    /\ built < MaxMenus
    /\ Begin(<<>>)
    /\ Suspend("set_menu")
    /\ remote' = <<Call("Menu", <<>>)>>
    /\ local' = <<>>
    /\ parsed' = <<>>
    /\ gtk_menu' = None
    /\ UNCHANGED <<input, output, raw, sni, built>>

set_menu ==
    /\ pc = "idle"
    /\ built < MaxMenus
    /\ Begin(<<>>)
    /\ Suspend("set_menu")
    /\ remote' = <<Call("Menu", <<>>)>>
    /\ local' = <<>>
    /\ parsed' = <<>>
    /\ UNCHANGED <<input, output, raw, sni, gtk_menu, built>>

\* a seeded fault: the proxy is pointed at the menu's path once a menu is built
set_menu_resume_rebind(reply) ==
    /\ pc = "set_menu"
    /\ remote' = Replied(reply)
    /\ IF ~reply.ok
       THEN /\ Return("set_menu", Err(reply.err), "idle")
            /\ UNCHANGED <<sni, gtk_menu, built>>
       ELSE /\ gtk_menu' = Some(Menu_new(sni.val.destination, reply.val))
            /\ sni' = Some([sni.val EXCEPT !.path = reply.val])
            /\ built' = built + 1
            /\ Return("set_menu", Ok(Unit), "idle")
    /\ UNCHANGED <<input, output, raw, args, pre, local, parsed, prev>>

\* a seeded fault: a failed getter drops the cached menu
set_menu_resume_clear(reply) ==
    /\ pc = "set_menu"
    /\ remote' = Replied(reply)
    /\ IF ~reply.ok
       THEN /\ Return("set_menu", Err(reply.err), "idle")
            /\ gtk_menu' = None
            /\ UNCHANGED built
       ELSE /\ gtk_menu' = Some(Menu_new(sni.val.destination, reply.val))
            /\ built' = built + 1
            /\ Return("set_menu", Ok(Unit), "idle")
    /\ UNCHANGED <<input, output, raw, sni, args, pre, local, parsed, prev>>

\* a seeded fault: a menu is built only when none is cached (get_or_insert)
set_menu_resume_keep(reply) ==
    /\ pc = "set_menu"
    /\ remote' = Replied(reply)
    /\ IF ~reply.ok
       THEN /\ Return("set_menu", Err(reply.err), "idle")
            /\ UNCHANGED <<gtk_menu, built>>
       ELSE /\ IF gtk_menu.some
               THEN UNCHANGED <<gtk_menu, built>>
               ELSE /\ gtk_menu' = Some(Menu_new(sni.val.destination, reply.val))
                    /\ built' = built + 1
            /\ Return("set_menu", Ok(Unit), "idle")
    /\ UNCHANGED <<input, output, raw, sni, args, pre, local, parsed, prev>>

\* self.sni.menu().await completes; `?`, then the assignment to self.gtk_menu
set_menu_resume(reply) ==
    /\ pc = "set_menu"
    /\ remote' = Replied(reply)
    /\ IF ~reply.ok
       THEN /\ Return("set_menu", Err(reply.err), "idle")
            /\ UNCHANGED <<gtk_menu, built>>
       ELSE /\ gtk_menu' = Some(Menu_new(sni.val.destination, reply.val))
            /\ built' = built + 1
            /\ Return("set_menu", Ok(Unit), "idle")
    /\ UNCHANGED <<input, output, raw, sni, args, pre, local, parsed, prev>>

(***************************************************************************)
(* Item::popup_menu                                                        *)
(***************************************************************************)
\* event.downcast_ref::<gdk::Event>(): an EventButton is a gdk::Event
downcast_ref(event) == Some(event)

\* a seeded fault: the menu is attached only while it is attached to nothing
popup_menu_attach_once(widget, event, x, y) ==
    /\ pc = "idle"
    /\ Begin(<<widget, event, x, y>>)
    /\ IF gtk_menu.some
       THEN /\ IF gtk_menu.val.attach_widget.some
               THEN /\ UNCHANGED gtk_menu
                    /\ local' = << [op |-> "popup_at_pointer", arg |-> downcast_ref(event)] >>
               ELSE /\ gtk_menu' = Some([gtk_menu.val EXCEPT !.attach_widget = Some(widget)])
                    /\ local' = << [op |-> "set_attach_widget", arg |-> Some(widget)],
                                   [op |-> "popup_at_pointer", arg |-> downcast_ref(event)] >>
            /\ remote' = <<>>
            /\ Return("popup_menu", Ok(Unit), "idle")
       ELSE /\ remote' = <<Call("ContextMenu", <<x, y>>)>>
            /\ local' = <<>>
            /\ Suspend("popup_menu")
            /\ UNCHANGED gtk_menu
    /\ parsed' = <<>>
    /\ UNCHANGED <<input, output, raw, sni, built>>

\* a seeded fault: the remote call is made with y and x exchanged
popup_menu_swapped(widget, event, x, y) ==
    /\ pc = "idle"
    /\ Begin(<<widget, event, x, y>>)
    /\ IF gtk_menu.some
       THEN /\ gtk_menu' = Some([gtk_menu.val EXCEPT !.attach_widget = Some(widget)])
            /\ local' = << [op |-> "set_attach_widget", arg |-> Some(widget)],
                           [op |-> "popup_at_pointer", arg |-> downcast_ref(event)] >>
            /\ remote' = <<>>
            /\ Return("popup_menu", Ok(Unit), "idle")
       ELSE /\ remote' = <<Call("ContextMenu", <<y, x>>)>>
            /\ local' = <<>>
            /\ Suspend("popup_menu")
            /\ UNCHANGED gtk_menu
    /\ parsed' = <<>>
    /\ UNCHANGED <<input, output, raw, sni, built>>

\* a seeded fault: the remote call is made whether or not a menu is cached
popup_menu_both(widget, event, x, y) ==
    /\ pc = "idle"
    /\ Begin(<<widget, event, x, y>>)
    /\ IF gtk_menu.some
       THEN /\ gtk_menu' = Some([gtk_menu.val EXCEPT !.attach_widget = Some(widget)])
            /\ local' = << [op |-> "set_attach_widget", arg |-> Some(widget)],
                           [op |-> "popup_at_pointer", arg |-> downcast_ref(event)] >>
       ELSE /\ local' = <<>>
            /\ UNCHANGED gtk_menu
    /\ remote' = <<Call("ContextMenu", <<x, y>>)>>
    /\ Suspend("popup_menu")
    /\ parsed' = <<>>
    /\ UNCHANGED <<input, output, raw, sni, built>>

\* up to its return (a cached menu) or to the await of context_menu (none)
popup_menu(widget, event, x, y) ==
    /\ pc = "idle"
    /\ Begin(<<widget, event, x, y>>)
    /\ IF gtk_menu.some
       THEN /\ gtk_menu' = Some([gtk_menu.val EXCEPT !.attach_widget = Some(widget)])
            /\ local' = << [op |-> "set_attach_widget", arg |-> Some(widget)],
                           [op |-> "popup_at_pointer", arg |-> downcast_ref(event)] >>
            /\ remote' = <<>>
            /\ Return("popup_menu", Ok(Unit), "idle")
       ELSE /\ remote' = <<Call("ContextMenu", <<x, y>>)>>
            /\ local' = <<>>
            /\ Suspend("popup_menu")
            /\ UNCHANGED gtk_menu
    /\ parsed' = <<>>
    /\ UNCHANGED <<input, output, raw, sni, built>>

\* a seeded fault: a failed ContextMenu call is made once more
popup_menu_resume_retry(reply) ==
    /\ pc = "popup_menu"
    /\ IF ~reply.ok /\ Len(remote) = 1
       THEN /\ remote' = Append(Replied(reply), Call("ContextMenu", remote[1].args))
            /\ UNCHANGED <<pc, result>>
       ELSE /\ remote' = Replied(reply)
            /\ Return("popup_menu", reply, "idle")
    /\ UNCHANGED <<input, output, raw, sni, gtk_menu, args, pre, local, parsed, built, prev>>

\* self.sni.context_menu(x, y).await completes: its result is popup_menu's
popup_menu_resume(reply) ==
    /\ pc = "popup_menu"
    /\ remote' = Replied(reply)
    /\ Return("popup_menu", reply, "idle")
    /\ UNCHANGED <<input, output, raw, sni, gtk_menu, args, pre, local, parsed, built, prev>>

(***************************************************************************)
(* Item::icon                                                              *)
(***************************************************************************)
\* what load_icon_from_sni (icon.rs) can hand back: a bitmap or nothing
load_icon_from_sni(proxy, size, scale) == {None} \cup {Some(p) : p \in Pixbufs}

icon(size, scale) ==
    /\ pc = "idle"
    /\ Begin(<<size, scale>>)
    /\ Suspend("icon")
    /\ remote' = <<>>
    /\ local' = <<>>
    /\ parsed' = <<>>
    /\ UNCHANGED <<input, output, raw, sni, gtk_menu, built>>

\* a seeded fault: a missing icon is reported as an error
icon_resume_err(r) ==
    /\ pc = "icon"
    /\ Return("icon", IF r.some THEN r ELSE Err(InputOutput), "idle")
    /\ UNCHANGED <<input, output, raw, sni, gtk_menu, args, pre, remote, local, parsed,
                   built, prev>>

\* load_icon_from_sni(...).await completes: its Option is icon's
icon_resume(r) ==
    /\ pc = "icon"
    /\ Return("icon", r, "idle")
    /\ UNCHANGED <<input, output, raw, sni, gtk_menu, args, pre, remote, local, parsed,
                   built, prev>>

(***************************************************************************)
(* Cancellation: the task is dropped while suspended at an await           *)
(***************************************************************************)
Suspended == {"from_address", "status", "set_menu", "popup_menu", "icon"}

cancel ==
    /\ pc \in Suspended
    /\ Return(pc, Cancelled, IF pc = "from_address" THEN "none" ELSE "idle")
    /\ UNCHANGED <<input, output, raw, sni, gtk_menu, args, pre, remote, local, parsed,
                   built, prev>>

Replies(vals) == {Ok(v) : v \in vals} \cup {Err(e) : e \in ZbusErrors}

Next ==
    \/ \E a \in Addresses, rej \in {None} \cup {Some(e) : e \in ZbusErrors} :
          from_address(a, rej)
    \/ \E reply \in Replies({Unit}) : from_address_resume(reply)
    \/ status
    \/ \E reply \in Replies(StatusReplies) : status_resume(reply)
    \/ set_menu
    \/ \E reply \in Replies(MenuPaths) : set_menu_resume(reply)
    \/ \E w \in Widgets, ev \in Events, x \in Coords, y \in Coords : popup_menu(w, ev, x, y)
    \/ \E reply \in Replies({Unit}) : popup_menu_resume(reply)
    \/ \E size \in Sizes, scale \in Scales : icon(size, scale)
    \/ \E r \in load_icon_from_sni(sni.val, args[1], args[2]) : icon_resume(r)
    \/ cancel

Spec == Init /\ [][Next]_vars

(***************************************************************************)
(* split_service_name on its own, over every string of the bound           *)
(***************************************************************************)
InitResolve ==
    /\ input \in Strings
    /\ output = None
    /\ raw = <<>>
    /\ sni = None
    /\ gtk_menu = None
    /\ pc = "none"
    /\ args = <<>>
    /\ pre = None
    /\ remote = <<>>
    /\ local = <<>>
    /\ parsed = <<>>
    /\ built = 0
    /\ result = [op |-> "none", ret |-> Pending]
    /\ prev = [op |-> "none", failed |-> FALSE, had_menu |-> FALSE]

resolve ==
    /\ ~output.some
    /\ output' = Some(split_service_name(input))
    /\ UNCHANGED <<input, raw, sni, gtk_menu, pc, args, pre, remote, local, parsed, built,
                   result, prev>>

NextResolve == resolve

SpecResolve == InitResolve /\ [][NextResolve]_vars

(***************************************************************************)
(* Properties of the Item operations (Spec)                                *)
(***************************************************************************)
\* how many times c occurs in s
Count(s, c) == Cardinality({i \in 1..Len(s) : s[i] = c})

\* the calls popup_menu makes on a cached menu, in order
LocalPopup(widget, event) ==
    << [op |-> "set_attach_widget", arg |-> Some(widget)],
       [op |-> "popup_at_pointer", arg |-> Some(event)] >>

\* C1: a set_menu whose Menu getter fails while a menu is cached returns the
\* getter's error and leaves the cached menu as it was; the popup_menu that
\* follows attaches and pops up that menu and issues no remote call.
C1_FailedSetMenuKeepsMenu ==
    /\ (result.op = "set_menu" /\ IsErr(result.ret) /\ pre.some) =>
          /\ remote[1].call = "Menu"
          /\ result.ret = remote[1].reply
          /\ gtk_menu = pre
    /\ (result.op = "popup_menu" /\ prev.op = "set_menu" /\ prev.failed /\ prev.had_menu) =>
          /\ local = LocalPopup(args[1], args[2])
          /\ remote = <<>>
          /\ result.ret = Ok(Unit)

C1_Witness ==
    /\ result.op = "popup_menu"
    /\ prev.op = "set_menu" /\ prev.failed /\ prev.had_menu
    /\ pc = "idle"

\* C2: popup_menu without a cached menu issues exactly one remote ContextMenu
\* call, with the x and y it was given, touches no local menu, and returns
\* that call's result as it is.
C2_RemotePopupVerbatim ==
    (result.op = "popup_menu" /\ ~pre.some) =>
        /\ Len(remote) = 1
        /\ remote[1].call = "ContextMenu"
        /\ remote[1].args = <<args[3], args[4]>>
        /\ local = <<>>
        /\ ~gtk_menu.some
        /\ (pc = "popup_menu") => (remote[1].reply = Pending /\ result.ret = Pending)
        /\ (pc = "idle" /\ result.ret # Cancelled) => result.ret = remote[1].reply

C2_Witness ==
    /\ result.op = "popup_menu" /\ ~pre.some
    /\ pc = "idle"
    /\ IsErr(result.ret)
    /\ args[3] # args[4]

\* C3: popup_menu with a cached menu attaches it to the given widget, then pops
\* it up at the event's pointer, makes no remote call and returns Ok(()).
C3_LocalPopupNoRemote ==
    (result.op = "popup_menu" /\ pre.some) =>
        /\ local = LocalPopup(args[1], args[2])
        /\ remote = <<>>
        /\ pc = "idle"
        /\ result.ret = Ok(Unit)
        /\ gtk_menu = Some([pre.val EXCEPT !.attach_widget = Some(args[1])])

C3_Witness ==
    /\ result.op = "popup_menu" /\ pre.some
    /\ args[3] # args[4]
    /\ pre.val.attach_widget.some /\ pre.val.attach_widget # Some(args[1])

\* C4: when the Status getter fails, status() returns the getter's own error
\* and Status::from_str is not consulted.
C4_StatusGetterErrorVerbatim ==
    (result.op = "status" /\ pc = "idle" /\ IsErr(remote[1].reply)) =>
        /\ result.ret = remote[1].reply
        /\ parsed = <<>>

C4_Witness ==
    /\ result.op = "status" /\ pc = "idle"
    /\ IsErr(remote[1].reply)
    /\ result.ret = Err(InputOutput)

ValidStatus == {PassiveStr, ActiveStr, NeedsAttentionStr}

\* the errors status() builds for an unrecognised status string
InvalidStatusErrors == {Failure(invalid_status(s)) : s \in StatusReplies \ ValidStatus}

\* C5: an unrecognised status string gives an invalid-status error, and no
\* error status() returns for a failed getter is an invalid-status error.
C5_InvalidStatusDistinct ==
    /\ (result.op = "status" /\ pc = "idle" /\ remote[1].reply \in
            {Ok(s) : s \in StatusReplies \ ValidStatus}) =>
          /\ IsErr(result.ret)
          /\ result.ret.err \in InvalidStatusErrors
    /\ (result.op = "status" /\ pc = "idle" /\ IsErr(remote[1].reply)) =>
          result.ret.err \notin InvalidStatusErrors

\* C6: a successful set_menu caches a menu newly built for (the proxy's
\* destination, the path this call's getter returned); the cached menu is
\* always the most recently built one.
C6_SetMenuReplaces ==
    /\ (result.op = "set_menu" /\ result.ret = Ok(Unit)) =>
          /\ remote[1].reply.ok
          /\ gtk_menu = Some([id |-> built, name |-> sni.val.destination,
                              object |-> remote[1].reply.val, attach_widget |-> None])
          /\ pre.some => gtk_menu.val.id > pre.val.id
    /\ gtk_menu.some => (gtk_menu.val.id = built /\ gtk_menu.val.name = sni.val.destination)

C6_Witness ==
    /\ result.op = "set_menu" /\ result.ret = Ok(Unit)
    /\ pre.some
    /\ pre.val.object # gtk_menu.val.object
    /\ pre.val.attach_widget.some

\* C7: while set_menu is suspended on the Menu getter, and after it is
\* cancelled there, the cached menu is what it was at the call; the menu
\* differs from that only when a successful reply was received, and is then
\* built from that reply.
C7_CancelledSetMenuNoWrite ==
    /\ (pc = "set_menu") => (gtk_menu = pre /\ remote[1].reply = Pending)
    /\ (result.op = "set_menu" /\ result.ret = Cancelled) =>
          (gtk_menu = pre /\ remote[1].reply = Pending)
    /\ (result.op = "set_menu" /\ gtk_menu # pre) =>
          /\ remote[1].reply \in {Ok(m) : m \in MenuPaths}
          /\ gtk_menu.val.object = remote[1].reply.val

C7_Witness ==
    /\ result.op = "set_menu" /\ result.ret = Cancelled
    /\ pc = "idle"
    /\ pre.some

\* C8: a successful from_address returns an Item without a cached menu, and
\* until a set_menu has succeeded every popup_menu goes through the remote
\* ContextMenu call and none through a local menu.
C8_NewItemHasNoMenu ==
    /\ (result.op = "from_address" /\ result.ret = Ok(Unit)) => (sni.some /\ ~gtk_menu.some)
    /\ (built = 0) => ~gtk_menu.some
    /\ (result.op = "popup_menu" /\ built = 0) =>
          /\ local = <<>>
          /\ Len(remote) = 1
          /\ remote[1].call = "ContextMenu"

C8_Witness ==
    /\ result.op = "popup_menu" /\ built = 0
    /\ prev.op = "from_address"
    /\ pc = "idle"

\* C13: from_address on an address that does not resolve returns the Address
\* error for that address at once: no proxy is built, no remote call is
\* issued, no Item exists, and nothing is tried again.
C13_UnresolvedAddressNoItem ==
    (result.op = "from_address" /\ Count(raw, "/") = 0 /\ Count(raw, ":") = 0) =>
        /\ result.ret = Err(Address(raw))
        /\ remote = <<>>
        /\ pc = "none"
        /\ ~sni.some
        /\ ~gtk_menu.some

C13_Witness ==
    /\ result.op = "from_address"
    /\ raw = <<"g", "a", "r", "b", "a", "g", "e">>
    /\ prev.op = "from_address" /\ prev.failed

\* C14: status, set_menu and popup_menu each issue at most one remote call,
\* their own, and when it fails they return its error without another call.
C14_NoRetry ==
    /\ Len(remote) <= 1
    /\ (result.op = "status") => (Len(remote) = 1 /\ remote[1].call = "Status")
    /\ (result.op = "set_menu") => (Len(remote) = 1 /\ remote[1].call = "Menu")
    /\ (result.op = "popup_menu" /\ remote # <<>>) => remote[1].call = "ContextMenu"
    /\ (result.op \in {"status", "set_menu", "popup_menu"} /\ remote # <<>>
            /\ IsErr(remote[1].reply)) =>
          /\ pc = "idle"
          /\ result.ret = remote[1].reply

C14_Witness ==
    /\ result.op = "set_menu"
    /\ pc = "idle"
    /\ IsErr(result.ret)
    /\ ~pre.some
    /\ Len(remote) = 1

\* the proxy from_address builds for the address it was given
Handle(a) ==
    Some([destination |-> split_service_name(a).val[1],
          path |-> split_service_name(a).val[2]])

\* C15: once the Item exists, its proxy stays bound to the address and path
\* resolved from from_address's argument, whatever is called and however it
\* ends.
C15_HandleNeverRebound ==
    /\ [](sni.some => (split_service_name(raw).ok /\ sni = Handle(raw)))
    /\ [][sni.some => (sni' = sni /\ raw' = raw)]_vars

C15_Witness ==
    /\ sni.some
    /\ sni = Handle(raw)
    /\ result.op = "icon" /\ pc = "idle"
    /\ prev.op = "set_menu" /\ ~prev.failed
    /\ gtk_menu.some /\ gtk_menu.val.attach_widget.some

\* C16: a popup_menu on a cached menu first attaches the menu to its widget,
\* then pops it up; the menu's one attachment changes only then, so it is
\* always the widget of the latest popup_menu on that menu.
C16_AttachedToLatestSurface ==
    /\ []((result.op = "popup_menu" /\ pre.some) =>
            /\ gtk_menu.val.attach_widget = Some(args[1])
            /\ Len(local) = 2
            /\ local[1] = [op |-> "set_attach_widget", arg |-> Some(args[1])]
            /\ local[2].op = "popup_at_pointer")
    /\ [][(/\ gtk_menu.some /\ gtk_menu'.some
           /\ gtk_menu'.val.id = gtk_menu.val.id
           /\ gtk_menu'.val.attach_widget # gtk_menu.val.attach_widget) =>
             (/\ result'.op = "popup_menu"
              /\ gtk_menu'.val.attach_widget = Some(args'[1]))]_vars

C16_Witness ==
    /\ result.op = "popup_menu" /\ prev.op = "popup_menu"
    /\ pre.some /\ pre.val.attach_widget.some
    /\ gtk_menu.val.attach_widget # pre.val.attach_widget
    /\ gtk_menu.val.id = pre.val.id

\* C17: icon returns a bitmap or nothing, never an error, and leaves the
\* cached menu and the proxy as they were.
C17_IconNeverFails ==
    /\ (pc = "icon") => (gtk_menu = pre /\ sni = Handle(raw))
    /\ (result.op = "icon" /\ pc = "idle" /\ result.ret # Cancelled) =>
          /\ result.ret \in {None} \cup {Some(p) : p \in Pixbufs}
          /\ gtk_menu = pre
          /\ sni = Handle(raw)

C17_Witness ==
    /\ result.op = "icon" /\ pc = "idle"
    /\ result.ret = None
    /\ pre.some

\* C18: once a set_menu has succeeded a menu is cached in every later state,
\* and no remote ContextMenu call is issued any more.
C18_MenuStaysCached ==
    /\ []((built > 0) =>
            /\ gtk_menu.some
            /\ (remote = <<>> \/ remote[1].call # "ContextMenu"))
    /\ [][gtk_menu.some => gtk_menu'.some]_vars

C18_Witness ==
    /\ built > 0
    /\ result.op = "popup_menu" /\ result.ret = Ok(Unit)
    /\ prev.op = "set_menu" /\ prev.failed
    /\ gtk_menu.some
    /\ gtk_menu.val.id = built
    /\ remote = <<>>

(***************************************************************************)
(* Properties of split_service_name (SpecResolve)                          *)
(***************************************************************************)
\* C9: a string with a '/' resolves to (addr, path) with addr free of '/',
\* path starting with '/', and addr followed by path spelling the string;
\* every path a successful resolve returns starts with '/'.
C9_SlashSplit ==
    output.some =>
        /\ (Count(input, "/") > 0) =>
              /\ output.val.ok
              /\ Count(output.val.val[1], "/") = 0
              /\ output.val.val[1] \o output.val.val[2] = input
        /\ output.val.ok =>
              (Len(output.val.val[2]) > 0 /\ output.val.val[2][1] = "/")

C9_Witness ==
    /\ output.some
    /\ Count(input, "/") = 2
    /\ Count(output.val.val[1], ":") = 1
    /\ Len(output.val.val[1]) = 2

\* the field after the first ':' of s: it runs to the next ':' or the end
SecondField(s, f) ==
    \E i \in 1..Len(s) :
        /\ s[i] = ":"
        /\ \A j \in 1..(i - 1) : s[j] # ":"
        /\ i + Len(f) <= Len(s)
        /\ f = [k \in 1..Len(f) |-> s[i + k]]
        /\ Count(f, ":") = 0
        /\ (i + Len(f) = Len(s) \/ s[i + Len(f) + 1] = ":")

\* C10: a string with a ':' and no '/' resolves to (the text between the first
\* ':' and the next ':' or the end, "/StatusNotifierItem"), as
\* "org.foo:1.50:extra" to ("1.50", "/StatusNotifierItem").
C10_ColonSecondField ==
    /\ (output.some /\ Count(input, ":") > 0 /\ Count(input, "/") = 0) =>
          /\ output.val.ok
          /\ SecondField(input, output.val.val[1])
          /\ output.val.val[2] = DefaultPath
    /\ split_service_name(<<"o", "r", "g", ".", "f", "o", "o", ":", "1", ".", "5", "0",
                            ":", "e", "x", "t", "r", "a">>)
          = Ok(<< <<"1", ".", "5", "0">>, DefaultPath >>)

C10_Witness ==
    /\ output.some
    /\ Count(input, ":") = 2 /\ Count(input, "/") = 0
    /\ input[1] # ":"
    /\ output.val.ok /\ Len(output.val.val[1]) = 1

\* C11: a string with neither '/' nor ':' fails to resolve, with the one
\* error kind Address, which carries the string unchanged; no resolve fails
\* with anything else.
C11_NeitherIsAddressError ==
    output.some =>
        /\ (Count(input, "/") = 0 /\ Count(input, ":") = 0) =>
              output.val = Err(Address(input))
        /\ ~output.val.ok =>
              (output.val.err.variant = "Address" /\ output.val.err.msg = input)

C11_Witness ==
    /\ output.some
    /\ Count(input, "/") = 0 /\ Count(input, ":") = 0
    /\ Len(input) = 3
    /\ Count(input, "a") = 2
    /\ ~output.val.ok

\* C19: resolve fails exactly for the strings with neither '/' nor ':': a
\* string with a ':' and no '/' always has a second colon field, possibly
\* empty, as "foo:" which resolves to the empty address.
C19_ErrorIffNeither ==
    /\ output.some =>
          /\ ~output.val.ok <=> (Count(input, "/") = 0 /\ Count(input, ":") = 0)
          /\ (Count(input, ":") > 0 /\ Count(input, "/") = 0) =>
                /\ Len(split(input, ":")) = Count(input, ":") + 1
                /\ nth(split(input, ":"), 1).some
    /\ split_service_name(<<"f", "o", "o", ":">>) = Ok(<< <<>>, DefaultPath >>)

C19_Witness ==
    /\ output.some
    /\ Count(input, ":") = 1 /\ Count(input, "/") = 0
    /\ Len(input) > 1
    /\ input[Len(input)] = ":"
    /\ output.val = Ok(<< <<>>, DefaultPath >>)

(***************************************************************************)
(* Status::from_str on its own                                             *)
(***************************************************************************)
Prefixes(s) == {SubSeq(s, 1, n) : n \in 0..Len(s)}

\* the three names, what is cut from them, and each of those with a space
\* before or after or a lower-case "active" in place of "Active"
StatusLike ==
    LET base == UNION {Prefixes(s) : s \in ValidStatus}
                \cup {BananaStr, <<"a", "c", "t", "i", "v", "e">>,
                      <<"p", "a", "s", "s", "i", "v", "e">>}
    IN  base \cup {<<" ">> \o s : s \in base} \cup {s \o <<" ">> : s \in base}

ParseInputs == StatusLike \cup Strings

InitParse ==
    /\ input \in ParseInputs
    /\ output = None
    /\ raw = <<>>
    /\ sni = None
    /\ gtk_menu = None
    /\ pc = "none"
    /\ args = <<>>
    /\ pre = None
    /\ remote = <<>>
    /\ local = <<>>
    /\ parsed = <<>>
    /\ built = 0
    /\ result = [op |-> "none", ret |-> Pending]
    /\ prev = [op |-> "none", failed |-> FALSE, had_menu |-> FALSE]

parse ==
    /\ ~output.some
    /\ output' = Some(from_str(input))
    /\ UNCHANGED <<input, raw, sni, gtk_menu, pc, args, pre, remote, local, parsed, built,
                   result, prev>>

NextParse == parse

SpecParse == InitParse /\ [][NextParse]_vars

\* C12: parsing gives Passive, Active or NeedsAttention exactly for the
\* strings "Passive", "Active" and "NeedsAttention", and the parse error for
\* every other string: no case folding, no trimming, no default.
C12_ExactStatusParse ==
    output.some =>
        /\ output.val = Ok("Passive") <=> input = PassiveStr
        /\ output.val = Ok("Active") <=> input = ActiveStr
        /\ output.val = Ok("NeedsAttention") <=> input = NeedsAttentionStr
        /\ output.val.ok <=> input \in ValidStatus
        /\ ~output.val.ok => output.val = Err(ParseStatusError)
        /\ input \in {<<"a", "c", "t", "i", "v", "e">>, <<>>, <<" ">> \o ActiveStr,
                      ActiveStr \o <<" ">>} => ~output.val.ok

C12_Witness ==
    /\ output.some
    /\ input = ActiveStr \o <<" ">>
    /\ output.val = Err(ParseStatusError)

====
